---- MODULE Spec2Model ----
(***************************************************************************)
(* The OpInfo table accessors and builder helpers of                       *)
(* onnxruntime/core/flatbuffers/ort_flatbuffers_py/fbs/OpInfo.py, together *)
(* with the flatbuffers Builder / Table / util functions those lines call. *)
(* Buffers are sequences of bytes; a 0-based position p is element p+1.    *)
(* The builder's buffer is kept as `data` = Bytes[head:], so that          *)
(* Offset() = len(Bytes) - head = Len(data), and `bufSize` = len(Bytes).   *)
(***************************************************************************)
EXTENDS Integers, Sequences, FiniteSets, TLC

\* ------------------------------------------------------------------ bounds
MaxBytes == 44       \* builder calls that would exceed this many bytes are not taken
MaxElems == 2        \* largest numElems passed to StartVector
MaxTables == 3       \* table offsets the caller keeps
MaxVecs == 1         \* vector offsets the caller keeps
InitialSize == 8     \* Builder(initialSize)
NumViews == 2        \* OpInfo views alive at once
MaxRawTail == 1      \* bytes after the identifier in a loaded buffer

\* --------------------------------------------------------------- constants
UOffsetWidth == 4      \* N.UOffsetTFlags.bytewidth
SOffsetWidth == 4      \* N.SOffsetTFlags.bytewidth
VOffsetWidth == 2      \* N.VOffsetTFlags.bytewidth
VtableMetadataFields == 2
FileIdentifierLength == 4
SlotVOffset == 4       \* self._tab.Offset(4)
NumFields == 1         \* builder.StartObject(1)
SlotNum == 0           \* PrependUOffsetTRelativeSlot(0, ...)
DefaultValue == 0      \* PrependUOffsetTRelativeSlot(..., 0)
ElemSize == 4          \* StartVector(4, numElems, 4)
ElemAlign == 4
Identifier == <<79, 82, 84, 77>>   \* b"\x4F\x52\x54\x4D"

NoneVT == <<-1>>       \* current_vtable = None
NoneVal == -1          \* Python None as a returned value / unbound position
Raised == -2           \* the call raised: no value returned

\* ------------------------------------------------------------ byte encoding
Pow2(n) == 2 ^ n

\* struct.pack("<I"/"<H"/"<i", x): little-endian, two's complement for negatives
\* (the complement is taken bytewise, to stay within 32-bit integers)
Pack(x, w) ==
    [i \in 1..w |-> IF x >= 0
                    THEN (x \div Pow2(8 * (i - 1))) % 256
                    ELSE 255 - ((((-x) - 1) \div Pow2(8 * (i - 1))) % 256)]

\* Python's struct.unpack_from accepts a negative offset, counted from the end
NormPos(buf, p) == IF p < 0 THEN p + Len(buf) ELSE p

InRange(buf, p, w) == LET q == NormPos(buf, p) IN q >= 0 /\ q + w <= Len(buf)

RECURSIVE SumBytes(_, _, _)
SumBytes(buf, q, w) ==
    IF w = 0 THEN 0 ELSE buf[q + 1] + 256 * SumBytes(buf, q + 1, w - 1)

RECURSIVE SumComplement(_, _, _)
SumComplement(buf, q, w) ==
    IF w = 0 THEN 0 ELSE (255 - buf[q + 1]) + 256 * SumComplement(buf, q + 1, w - 1)

\* an unsigned value of 2^31 or more: past every position of every buffer here
Beyond == Pow2(30)

\* encode.Get(packer.uoffset / packer.voffset, buf, p); the caller checks InRange
GetU(buf, p, w) ==
    LET q == NormPos(buf, p)
    IN  IF w = 4 /\ buf[q + w] >= 128 THEN Beyond ELSE SumBytes(buf, q, w)

\* encode.Get(packer.soffset, buf, p)
GetS(buf, p, w) ==
    LET q == NormPos(buf, p)
    IN  IF buf[q + w] >= 128 THEN -(1 + SumComplement(buf, q, w)) ELSE SumBytes(buf, q, w)

Zeros(n) == [i \in 1..n |-> 0]

\* encode.Write given a position counted from the wrong end: the value lands
\* on the last bytes of the buffer
WriteAt_FromEnd(buf, p, x, w) ==
    [i \in 1..Len(buf) |-> IF i > Len(buf) - w THEN Pack(x, w)[i - (Len(buf) - w)] ELSE buf[i]]

\* encode.Write(packer, buf, p, x) on a 0-based position of `buf`
WriteAt(buf, p, x, w) ==
    [i \in 1..Len(buf) |-> IF i > p /\ i <= p + w THEN Pack(x, w)[i - p] ELSE buf[i]]

Max(a, b) == IF a > b THEN a ELSE b

\* ------------------------------------------------------------------ Builder
\* Builder.__init__
NewBuilder == [data |-> <<>>, bufSize |-> InitialSize, minalign |-> 1,
               current_vtable |-> NoneVT, objectEnd |-> NoneVal,
               vtables |-> <<>>, nested |-> FALSE, finished |-> FALSE]

\* Builder.Offset
Offset(b) == Len(b.data)

\* Builder.Head
BHead(b) == b.bufSize - Len(b.data)

\* Builder.growByteBuffer, repeated by Prep's while loop until `need` fits
RECURSIVE GrowTo(_, _)
GrowTo(size, need) ==
    IF size >= need THEN size
    ELSE GrowTo(IF size = 0 THEN 1 ELSE 2 * size, need)

\* Builder.Place
Place(b, x, w) == [b EXCEPT !.data = Pack(x, w) \o b.data]

\* Builder.Prep followed by Builder.Pad
Prep(b, size, additionalBytes) ==
    LET alignSize == (-(Len(b.data) + additionalBytes)) % size
        need == Len(b.data) + alignSize + size + additionalBytes
    IN  [b EXCEPT !.minalign = Max(b.minalign, size),
                  !.bufSize  = GrowTo(b.bufSize, need),
                  !.data     = Zeros(alignSize) \o b.data]

Ok(b, r) == [b |-> b, exc |-> "none", ret |-> r]
Exc(b, e) == [b |-> b, exc |-> e, ret |-> Raised]

\* Builder.PrependUOffsetTRelative
PrependUOffsetTRelative(b, off) ==
    LET b1 == Prep(b, UOffsetWidth, 0)
    IN  IF ~(off <= Offset(b1)) THEN Exc(b1, "OffsetArithmeticError")
        ELSE Ok(Place(b1, Offset(b1) - off + UOffsetWidth, UOffsetWidth), NoneVal)

\* Builder.PrependSOffsetTRelative
PrependSOffsetTRelative(b, off) ==
    LET b1 == Prep(b, SOffsetWidth, 0)
    IN  IF ~(off <= Offset(b1)) THEN Exc(b1, "OffsetArithmeticError")
        ELSE Ok(Place(b1, Offset(b1) - off + SOffsetWidth, SOffsetWidth), NoneVal)

\* Builder.PrependVOffsetT
PrependVOffsetT(b, x) == Place(Prep(b, VOffsetWidth, 0), x, VOffsetWidth)

\* Builder.StartObject without assertNotNested
StartObject_NoNestedCheck(b, numfields) ==
    Ok([b EXCEPT !.current_vtable = Zeros(numfields),
                 !.objectEnd = Offset(b),
                 !.nested = TRUE], NoneVal)

\* Builder.StartObject
StartObject(b, numfields) ==
    IF b.nested THEN Exc(b, "IsNestedError")
    ELSE Ok([b EXCEPT !.current_vtable = Zeros(numfields),
                      !.objectEnd = Offset(b),
                      !.nested = TRUE], NoneVal)

\* Builder.Slot
Slot(b, slotnum) ==
    IF ~b.nested THEN Exc(b, "IsNotNestedError")
    ELSE IF b.current_vtable = NoneVT THEN Exc(b, "TypeError")
    ELSE Ok([b EXCEPT !.current_vtable[slotnum + 1] = Offset(b)], NoneVal)

\* Builder.PrependUOffsetTRelativeSlot (forceDefaults is False)
PrependUOffsetTRelativeSlot(b, o, x, d) ==
    IF x /= d
    THEN LET r == PrependUOffsetTRelative(b, x)
         IN  IF r.exc /= "none" THEN r ELSE Slot(r.b, o)
    ELSE Ok(b, NoneVal)

\* Builder.StartVector
StartVector(b, elemSize, numElems, alignment) ==
    IF b.nested THEN Exc(b, "IsNestedError")
    ELSE LET b1 == Prep([b EXCEPT !.nested = TRUE], UOffsetWidth, elemSize * numElems)
             b2 == Prep(b1, alignment, elemSize * numElems)
         IN  Ok(b2, Offset(b2))

\* Builder.EndVector
EndVector(b, vectorNumElems) ==
    IF ~b.nested THEN Exc(b, "IsNotNestedError")
    ELSE LET b1 == Place([b EXCEPT !.nested = FALSE], vectorNumElems, UOffsetWidth)
         IN  Ok(b1, Offset(b1))

\* the "while self.current_vtable and self.current_vtable[-1] == 0: pop()" loop
RECURSIVE TrimTrailingZeros(_)
TrimTrailingZeros(vt) ==
    IF Len(vt) > 0 /\ vt[Len(vt)] = 0
    THEN TrimTrailingZeros(SubSeq(vt, 1, Len(vt) - 1))
    ELSE vt

\* vtableEqual comparing the number of fields with the number of bytes
vtableEqual_FieldsAsBytes(a, objectStart, vt2) ==
    /\ Len(a) = Len(vt2)
    /\ \A i \in 1..Len(a) :
          LET x == GetU(vt2, (i - 1) * VOffsetWidth, VOffsetWidth)
          IN  (x = 0 /\ a[i] = 0) \/ x = objectStart - a[i]

\* builder.vtableEqual(a, objectStart, b)
vtableEqual(a, objectStart, vt2) ==
    /\ Len(a) * VOffsetWidth = Len(vt2)
    /\ \A i \in 1..Len(a) :
          LET x == GetU(vt2, (i - 1) * VOffsetWidth, VOffsetWidth)
          IN  (x = 0 /\ a[i] = 0) \/ x = objectStart - a[i]

\* the bytes of an emitted vtable after its two metadata fields
VtableBody(b, vt2Offset) ==
    LET vt2Start == Len(b.data) - vt2Offset
        vt2Len == GetU(b.data, vt2Start, VOffsetWidth)
        metadata == VtableMetadataFields * VOffsetWidth
    IN  SubSeq(b.data, vt2Start + metadata + 1, vt2Start + vt2Len)

\* the backwards search of WriteVtable: the matching vtable's offset, or 0
RECURSIVE FindVtable(_, _, _, _)
FindVtable(b, vt, objectOffset, i) ==
    IF i = 0 THEN 0
    ELSE IF vtableEqual(vt, objectOffset, VtableBody(b, b.vtables[i]))
         THEN b.vtables[i]
         ELSE FindVtable(b, vt, objectOffset, i - 1)

\* the "write out the current vtable in reverse" loop
RECURSIVE PrependFields(_, _, _, _)
PrependFields(b, vt, objectOffset, i) ==
    IF i = 0 THEN b
    ELSE PrependFields(
           PrependVOffsetT(b, IF vt[i] /= 0 THEN objectOffset - vt[i] ELSE 0),
           vt, objectOffset, i - 1)

\* Builder.WriteVtable
WriteVtable(b) ==
    LET b1 == PrependSOffsetTRelative(b, 0).b
        objectOffset == Offset(b1)
    IN  IF b.current_vtable = NoneVT THEN Exc(b1, "TypeError")
        ELSE
        LET vt == TrimTrailingZeros(b.current_vtable)
            existingVtable == FindVtable(b1, vt, objectOffset, Len(b1.vtables))
        IN  IF existingVtable = 0
            THEN LET b2 == PrependFields(b1, vt, objectOffset, Len(vt))
                     b3 == PrependVOffsetT(b2, objectOffset - b.objectEnd)
                     b4 == PrependVOffsetT(b3, (Len(vt) + VtableMetadataFields) * VOffsetWidth)
                     objectStart == Len(b4.data) - objectOffset
                 IN  Ok([b4 EXCEPT !.data = WriteAt(b4.data, objectStart,
                                                    Offset(b4) - objectOffset, SOffsetWidth),
                                   !.vtables = Append(b4.vtables, Offset(b4)),
                                   !.current_vtable = NoneVT], objectOffset)
            ELSE Ok([b1 EXCEPT !.data = WriteAt(b1.data, 0,
                                                existingVtable - objectOffset, SOffsetWidth),
                               !.current_vtable = NoneVT], objectOffset)

\* Builder.EndObject
EndObject(b) ==
    IF ~b.nested THEN Exc(b, "IsNotNestedError")
    ELSE WriteVtable([b EXCEPT !.nested = FALSE])

\* the file_identifier loop of Builder.__Finish
RECURSIVE PlaceIdentifier(_, _, _)
PlaceIdentifier(b, ident, i) ==
    IF i = 0 THEN b ELSE PlaceIdentifier(Place(b, ident[i], 1), ident, i - 1)

\* Builder.Finish(rootTable, file_identifier), sizePrefix = False
Finish(b, rootTable, withIdentifier) ==
    LET prepSize == UOffsetWidth + (IF withIdentifier THEN 4 ELSE 0)
        b1 == Prep(b, b.minalign, prepSize)
        b2 == IF withIdentifier
              THEN PlaceIdentifier(Prep(b1, UOffsetWidth, FileIdentifierLength),
                                   Identifier, FileIdentifierLength)
              ELSE b1
        r == PrependUOffsetTRelative(b2, rootTable)
    IN  IF r.exc /= "none" THEN r
        ELSE Ok([r.b EXCEPT !.finished = TRUE], BHead(r.b))

\* Builder.Output
Output(b) == IF ~b.finished THEN Exc(b, "BuilderNotFinishedError") ELSE Ok(b, NoneVal)

\* --------------------------------------------------------------------- Table
\* Table.Offset(vtableOffset) of a table at `pos`; Raised when a read leaves the buffer
TableOffset(buf, pos, vtableOffset) ==
    IF ~InRange(buf, pos, SOffsetWidth) THEN Raised
    ELSE LET vtable == pos - GetS(buf, pos, SOffsetWidth)
         IN  IF ~InRange(buf, vtable, VOffsetWidth) THEN Raised
             ELSE LET vtableEnd == GetU(buf, vtable, VOffsetWidth)
                  IN  IF vtableOffset < vtableEnd
                      THEN IF InRange(buf, vtable + vtableOffset, VOffsetWidth)
                           THEN GetU(buf, vtable + vtableOffset, VOffsetWidth)
                           ELSE Raised
                      ELSE 0

\* Table.Indirect
Indirect(buf, off) ==
    IF InRange(buf, off, UOffsetWidth) THEN off + GetU(buf, off, UOffsetWidth) ELSE Raised

\* Table.Vector
Vector(buf, pos, off) ==
    LET x == Indirect(buf, off + pos)
    IN  IF x = Raised THEN Raised ELSE x + UOffsetWidth

\* Table.VectorLen
VectorLen(buf, pos, off) ==
    LET x == Indirect(buf, off + pos)
    IN  IF x = Raised THEN Raised
        ELSE IF InRange(buf, x, UOffsetWidth) THEN GetU(buf, x, UOffsetWidth) ELSE Raised

\* -------------------------------------------------------------------- OpInfo
\* GetRootAsOpInfo with x.Init(buf, n): the offset is not added
GetRootAsOpInfo_OffsetNotAdded(buf, offset) ==
    IF InRange(buf, offset, UOffsetWidth)
    THEN GetU(buf, offset, UOffsetWidth)
    ELSE Raised

\* OpInfo.GetRootAsOpInfo: the position the new view is bound to
GetRootAsOpInfo(buf, offset) ==
    IF InRange(buf, offset, UOffsetWidth)
    THEN GetU(buf, offset, UOffsetWidth) + offset
    ELSE Raised

\* util.GetBufferIdentifier: a Python slice, cut to the buffer, never raising
GetBufferIdentifier(buf, offset, size_prefixed) ==
    LET start == offset + (IF size_prefixed THEN UOffsetWidth ELSE 0) + UOffsetWidth
        stop == start + FileIdentifierLength
        hi == IF stop < Len(buf) THEN stop ELSE Len(buf)
    IN  IF start >= hi THEN <<>> ELSE SubSeq(buf, start + 1, hi)

\* OpInfoBufferHasIdentifier that does not pass size_prefixed on
OpInfoBufferHasIdentifier_PrefixDropped(buf, offset, size_prefixed) ==
    GetBufferIdentifier(buf, offset, FALSE) = Identifier

\* OpInfo.OpInfoBufferHasIdentifier
OpInfoBufferHasIdentifier(buf, offset, size_prefixed) ==
    GetBufferIdentifier(buf, offset, size_prefixed) = Identifier

\* OpKernelTypeStrArgs with x += j: the element stride of 4 is missing
OpKernelTypeStrArgs_Stride1(buf, pos, j) ==
    LET o == TableOffset(buf, pos, SlotVOffset)
    IN  IF o = Raised THEN Raised
        ELSE IF o /= 0
             THEN LET x == Vector(buf, pos, o)
                  IN  IF x = Raised THEN Raised ELSE Indirect(buf, x + j)
             ELSE NoneVal

\* OpKernelTypeStrArgs that returns None for an index outside the vector
OpKernelTypeStrArgs_IndexChecked(buf, pos, j) ==
    LET o == TableOffset(buf, pos, SlotVOffset)
    IN  IF o = Raised THEN Raised
        ELSE IF o /= 0
             THEN LET n == VectorLen(buf, pos, o)
                      x == Vector(buf, pos, o)
                  IN  IF n = Raised \/ x = Raised THEN Raised
                      ELSE IF j >= n THEN NoneVal
                      ELSE Indirect(buf, x + j * 4)
             ELSE NoneVal

\* OpInfo.OpKernelTypeStrArgs: the position of the entry view, NoneVal or Raised
OpKernelTypeStrArgs(buf, pos, j) ==
    LET o == TableOffset(buf, pos, SlotVOffset)
    IN  IF o = Raised THEN Raised
        ELSE IF o /= 0
             THEN LET x == Vector(buf, pos, o)
                  IN  IF x = Raised THEN Raised ELSE Indirect(buf, x + j * 4)
             ELSE NoneVal

\* OpKernelTypeStrArgsLength without the "if o != 0" test
OpKernelTypeStrArgsLength_NoPresenceTest(buf, pos) ==
    LET o == TableOffset(buf, pos, SlotVOffset)
    IN  IF o = Raised THEN Raised ELSE VectorLen(buf, pos, o)

\* OpInfo.OpKernelTypeStrArgsLength
OpKernelTypeStrArgsLength(buf, pos) ==
    LET o == TableOffset(buf, pos, SlotVOffset)
    IN  IF o = Raised THEN Raised
        ELSE IF o /= 0 THEN VectorLen(buf, pos, o) ELSE 0

\* OpKernelTypeStrArgsIsNone looking up the vtable offset of the next slot
OpKernelTypeStrArgsIsNone_NextSlot(buf, pos) ==
    LET o == TableOffset(buf, pos, SlotVOffset + VOffsetWidth)
    IN  o = 0

\* OpInfo.OpKernelTypeStrArgsIsNone, where self._tab.Offset(4) does not raise
OpKernelTypeStrArgsIsNone(buf, pos) ==
    LET o == TableOffset(buf, pos, SlotVOffset)
    IN  o = 0

\* --------------------------------------------------------------------- state
VARIABLES
    builder,    \* the flatbuffers.Builder the helpers are called on
    call,       \* the last call made
    err,        \* the exception the last call raised, or "none"
    tabs,       \* the caller's table offsets: [off, field]; field is the vector offset
                \* passed to OpInfoAddOpKernelTypeStrArgs, 0 when none was
    vecs,       \* the caller's vector offsets: [off, elems, n], elems in index order
    pending,    \* element offsets prepended to the open vector, first prepended first
    numElems,   \* numElems of the open vector
    added,      \* the value passed to OpInfoAddOpKernelTypeStrArgs for the open
                \* object, NoneVal when it was not called
    rootOf,     \* the rootTable of Finish, 0 before
    finLen,     \* Offset() when Finish returned, 0 before
    out,        \* the buffer being read: what Output() returned, or a loaded buffer
    outRoot,    \* rootOf when `out` was taken, 0 for a loaded buffer
    views,      \* position of each OpInfo view (its _tab.Pos), NoneVal when unbound
    boundAt,    \* the offset each view's GetRootAsOpInfo was given, NoneVal when unbound
    res         \* the last read: [view, arg, val]

vars == <<builder, call, err, tabs, vecs, pending, numElems, added, rootOf, finLen,
          out, outRoot, views, boundAt, res>>

callerVars == <<tabs, vecs, pending, numElems, added, rootOf, finLen>>
readVars == <<out, outRoot, views, boundAt, res>>

ViewIds == 1..NumViews

NoRes == [view |-> 0, arg |-> NoneVal, val |-> NoneVal]

RECURSIVE Reverse(_)
Reverse(s) == IF s = <<>> THEN <<>> ELSE Append(Reverse(Tail(s)), s[1])

TableOffsets == {tabs[i].off : i \in 1..Len(tabs)}
VectorOffsets == {vecs[i].off : i \in 1..Len(vecs)}

\* the open nesting is a vector (StartVector), not an object (StartObject)
InVector == builder.nested /\ builder.current_vtable = NoneVT
InObject == builder.nested /\ builder.current_vtable /= NoneVT

\* an exception is not caught: the calling program ends with it
Running == err = "none"

ReadCalls == {"GetRootAsOpInfo", "OpInfoBufferHasIdentifier", "OpKernelTypeStrArgs",
              "OpKernelTypeStrArgsLength", "OpKernelTypeStrArgsIsNone"}

WriteCalls == {"OpInfoStart", "OpInfoAddOpKernelTypeStrArgs",
               "OpInfoStartOpKernelTypeStrArgsVector", "OpInfoEnd"}

\* the buffer was not built here: it was handed to the reader as bytes
Loaded == builder = NewBuilder /\ out /= <<>>

\* the builder is used until the first read of the buffer it produced
NoReadYet == call \notin ReadCalls

Fits(b) == Running /\ ~Loaded /\ NoReadYet /\ Len(b.data) <= MaxBytes

\* buffers handed to the reader: a root uoffset, an optional size-prefix-wide
\* gap, four identifier bytes (right, or wrong in one place), cut at any length
RawWords == {Identifier, <<79, 82, 84, 0>>, <<0, 82, 84, 77>>, <<79, 82, 77, 84>>}
RawHeads == {Pack(UOffsetWidth, UOffsetWidth), Pack(2 * UOffsetWidth, UOffsetWidth)}
RawFull == {h \o g \o w \o Zeros(MaxRawTail) :
               h \in RawHeads, g \in {<<>>, Zeros(UOffsetWidth)}, w \in RawWords}
RawCuts == {<<f, k>> \in RawFull \X (1..(3 * UOffsetWidth + MaxRawTail)) : k <= Len(f)}
RawBuffers == {SubSeq(c[1], 1, c[2]) : c \in RawCuts}

\* buffers this builder produces: n empty entry tables, the vector of them, an
\* OpInfo table holding the vector, finished with or without the identifier
RECURSIVE SampleEntries(_, _)
SampleEntries(b, n) ==
    IF n = 0 THEN [b |-> b, offs |-> <<>>]
    ELSE LET p == SampleEntries(b, n - 1)
             t == EndObject(StartObject(p.b, NumFields).b)
         IN  [b |-> t.b, offs |-> Append(p.offs, t.ret)]

RECURSIVE PrependAll(_, _, _)
PrependAll(b, offs, k) ==
    IF k = 0 THEN b ELSE PrependAll(PrependUOffsetTRelative(b, offs[k]).b, offs, k - 1)

SampleBuffer(n, withIdentifier) ==
    LET e == SampleEntries(NewBuilder, n)
        v == EndVector(PrependAll(StartVector(e.b, ElemSize, n, ElemAlign).b, e.offs, n), n)
        a == PrependUOffsetTRelativeSlot(StartObject(v.b, NumFields).b,
                                         SlotNum, v.ret, DefaultValue)
        t == EndObject(a.b)
    IN  Finish(t.b, t.ret, withIdentifier).b.data

SampleBuffers == {SampleBuffer(n, i) : n \in 0..MaxElems, i \in BOOLEAN}

LoadedBuffers == RawBuffers \cup SampleBuffers

Init ==
    /\ builder = NewBuilder
    /\ call = "init"
    /\ err = "none"
    /\ tabs = <<>>
    /\ vecs = <<>>
    /\ pending = <<>>
    /\ numElems = 0
    /\ added = NoneVal
    /\ rootOf = 0
    /\ finLen = 0
    /\ out \in {<<>>} \cup LoadedBuffers
    /\ outRoot = 0
    /\ views = [v \in ViewIds |-> NoneVal]
    /\ boundAt = [v \in ViewIds |-> NoneVal]
    /\ res = NoRes

\* ------------------------------------------------------------ builder calls
\* OpInfoStart(builder)
OpInfoStart ==
    LET r == StartObject(builder, NumFields)
    IN  /\ Fits(r.b)
        /\ builder' = r.b
        /\ call' = "OpInfoStart"
        /\ err' = r.exc
        /\ added' = IF r.exc = "none" THEN NoneVal ELSE added
        /\ UNCHANGED <<tabs, vecs, pending, numElems, rootOf, finLen>>
        /\ UNCHANGED readVars

\* OpInfoAddOpKernelTypeStrArgs(builder, opKernelTypeStrArgs)
OpInfoAddOpKernelTypeStrArgs ==
    \E x \in {0} \cup VectorOffsets :
        LET r == PrependUOffsetTRelativeSlot(builder, SlotNum, x, DefaultValue)
        IN  /\ Fits(r.b)
            \* the caller sets the field of an object at most once
            /\ added = NoneVal
            /\ builder' = r.b
            /\ call' = "OpInfoAddOpKernelTypeStrArgs"
            /\ err' = r.exc
            /\ added' = IF r.exc = "none" /\ InObject THEN x ELSE added
            /\ UNCHANGED <<tabs, vecs, pending, numElems, rootOf, finLen>>
            /\ UNCHANGED readVars

\* OpInfoStartOpKernelTypeStrArgsVector(builder, numElems)
OpInfoStartOpKernelTypeStrArgsVector ==
    \E n \in 0..MaxElems :
        LET r == StartVector(builder, ElemSize, n, ElemAlign)
        IN  /\ Fits(r.b)
            /\ r.exc = "none" => Len(r.b.data) + ElemSize * n + UOffsetWidth <= MaxBytes
            /\ r.exc = "none" => Len(vecs) < MaxVecs
            \* the caller builds a vector for a table: it starts the next one
            \* once the earlier ones have been added to a table
            /\ r.exc = "none" =>
                  \A i \in 1..Len(vecs) : \E k \in 1..Len(tabs) : tabs[k].field = vecs[i].off
            /\ builder' = r.b
            /\ call' = "OpInfoStartOpKernelTypeStrArgsVector"
            /\ err' = r.exc
            /\ pending' = IF r.exc = "none" THEN <<>> ELSE pending
            /\ numElems' = IF r.exc = "none" THEN n ELSE numElems
            /\ UNCHANGED <<tabs, vecs, added, rootOf, finLen>>
            /\ UNCHANGED readVars

\* the caller's builder.PrependUOffsetTRelative(e) between start and end of the vector
PrependElement ==
    \E e \in TableOffsets :
        LET r == PrependUOffsetTRelative(builder, e)
        IN  /\ InVector
            /\ Len(pending) < numElems
            /\ Fits(r.b)
            /\ builder' = r.b
            /\ call' = "PrependUOffsetTRelative"
            /\ err' = r.exc
            /\ pending' = Append(pending, e)
            /\ UNCHANGED <<tabs, vecs, numElems, added, rootOf, finLen>>
            /\ UNCHANGED readVars

\* the caller's builder.EndVector(numElems), once the elements are in, or with
\* nothing open
EndVectorCall ==
    LET r == EndVector(builder, numElems)
    IN  /\ ~InObject
        /\ InVector => Len(pending) = numElems
        /\ Fits(r.b)
        /\ builder' = r.b
        /\ call' = "EndVector"
        /\ err' = r.exc
        /\ vecs' = IF r.exc = "none"
                   THEN Append(vecs, [off |-> r.ret, elems |-> Reverse(pending),
                                      n |-> numElems])
                   ELSE vecs
        /\ pending' = IF r.exc = "none" THEN <<>> ELSE pending
        /\ UNCHANGED <<tabs, numElems, added, rootOf, finLen>>
        /\ UNCHANGED readVars

\* OpInfoEnd(builder)
OpInfoEnd ==
    LET r == EndObject(builder)
    IN  /\ Fits(r.b)
        /\ r.exc = "none" => Len(tabs) < MaxTables
        /\ builder' = r.b
        /\ call' = "OpInfoEnd"
        /\ err' = r.exc
        /\ tabs' = IF r.exc = "none"
                   THEN Append(tabs, [off |-> r.ret, field |-> Max(added, 0)])
                   ELSE tabs
        /\ added' = IF r.exc = "none" THEN NoneVal ELSE added
        /\ UNCHANGED <<vecs, pending, numElems, rootOf, finLen>>
        /\ UNCHANGED readVars

\* the caller's builder.Finish(rootTable) / builder.Finish(rootTable, b"ORTM"),
\* called once, with nothing open
FinishCall ==
    \E rootTable \in TableOffsets, withIdentifier \in BOOLEAN :
        LET r == Finish(builder, rootTable, withIdentifier)
        IN  /\ ~builder.nested
            /\ ~builder.finished
            /\ Fits(r.b)
            /\ builder' = r.b
            /\ call' = "Finish"
            /\ err' = r.exc
            /\ rootOf' = IF r.exc = "none" THEN rootTable ELSE rootOf
            /\ finLen' = IF r.exc = "none" THEN Offset(r.b) ELSE finLen
            /\ UNCHANGED <<tabs, vecs, pending, numElems, added>>
            /\ UNCHANGED readVars

\* the caller's out = builder.Output(): a copy of Bytes[Head():]; the caller
\* asks for it before Finish (an error) or right after it
OutputCall ==
    LET r == Output(builder)
    IN  /\ Fits(r.b)
        /\ builder.finished => Offset(builder) = finLen
        /\ builder' = r.b
        /\ call' = "Output"
        /\ err' = r.exc
        /\ out' = IF r.exc = "none" THEN builder.data ELSE out
        /\ outRoot' = IF r.exc = "none" THEN rootOf ELSE outRoot
        /\ UNCHANGED <<views, boundAt, res>>
        /\ UNCHANGED callerVars

BuilderNext ==
    \/ OpInfoStart
    \/ OpInfoAddOpKernelTypeStrArgs
    \/ OpInfoStartOpKernelTypeStrArgsVector
    \/ PrependElement
    \/ EndVectorCall
    \/ OpInfoEnd
    \/ FinishCall
    \/ OutputCall

\* --------------------------------------------------------------- read calls
\* reads are explored on the buffer as Output() last returned it, before the
\* builder is written again: builder calls leave `out` alone and reads leave
\* the builder alone, so the interleavings left out add no new read results
Reading == out /= <<>> /\ Running /\ (Loaded \/ builder.data = out)

\* the offset a reader passes: 0 for Output()'s buffer; for a loaded buffer also
\* an unaligned one and the width of a size prefix
RootOffsets == IF Loaded THEN {0, 1, UOffsetWidth} ELSE {0}

\* the indices a reader passes: those of the longest vector and one past them
Indices == 0..MaxElems

\* several views over one buffer are explored on loaded buffers, which include
\* buffers this builder produces; the buffer Output() returned gets one view
ActiveViews == IF Loaded THEN ViewIds ELSE {1}

Result(v, a, x) == [view |-> v, arg |-> a, val |-> x]

ReadErr(x) == IF x = Raised THEN "struct.error" ELSE "none"

\* OpInfo.Init: self._tab = Table(buf, pos)
InitPos(buf, pos) == pos

\* an accessor that leaves its cursor on what it read
PosAfterRead_Advanced(pos) == pos + UOffsetWidth

\* self._tab.Pos after an accessor ran: none of them assigns self._tab
PosAfterRead(pos) == pos

\* x = OpInfo.GetRootAsOpInfo(out, offset), x a new view
GetRootAsOpInfoCall ==
    \E v \in ActiveViews, offset \in RootOffsets :
        LET pos == GetRootAsOpInfo(out, offset)
        IN  /\ Reading
            /\ views[v] = NoneVal
            /\ \A w \in ViewIds : w < v => views[w] /= NoneVal
            /\ call' = "GetRootAsOpInfo"
            /\ err' = ReadErr(pos)
            /\ views' = IF pos = Raised THEN views
                        ELSE [views EXCEPT ![v] = InitPos(out, pos)]
            /\ boundAt' = IF pos = Raised THEN boundAt ELSE [boundAt EXCEPT ![v] = offset]
            /\ res' = Result(v, offset, pos)
            /\ UNCHANGED <<builder, out, outRoot>>
            /\ UNCHANGED callerVars

\* OpInfo.OpInfoBufferHasIdentifier(out, offset, size_prefixed)
OpInfoBufferHasIdentifierCall ==
    \E offset \in RootOffsets, size_prefixed \in BOOLEAN :
        /\ Reading
        /\ call' = "OpInfoBufferHasIdentifier"
        /\ err' = "none"
        /\ res' = Result(0, <<offset, size_prefixed>>,
                         OpInfoBufferHasIdentifier(out, offset, size_prefixed))
        /\ UNCHANGED <<builder, out, outRoot, views, boundAt>>
        /\ UNCHANGED callerVars

\* views[v].OpKernelTypeStrArgs(j)
OpKernelTypeStrArgsCall ==
    \E v \in ActiveViews, j \in Indices :
        LET x == OpKernelTypeStrArgs(out, views[v], j)
        IN  /\ Reading
            /\ views[v] /= NoneVal
            /\ call' = "OpKernelTypeStrArgs"
            /\ err' = ReadErr(x)
            /\ res' = Result(v, j, x)
            /\ views' = [views EXCEPT ![v] = PosAfterRead(views[v])]
            /\ UNCHANGED <<builder, out, outRoot, boundAt>>
            /\ UNCHANGED callerVars

\* views[v].OpKernelTypeStrArgsLength()
OpKernelTypeStrArgsLengthCall ==
    \E v \in ActiveViews :
        LET x == OpKernelTypeStrArgsLength(out, views[v])
        IN  /\ Reading
            /\ views[v] /= NoneVal
            /\ call' = "OpKernelTypeStrArgsLength"
            /\ err' = ReadErr(x)
            /\ res' = Result(v, NoneVal, x)
            /\ views' = [views EXCEPT ![v] = PosAfterRead(views[v])]
            /\ UNCHANGED <<builder, out, outRoot, boundAt>>
            /\ UNCHANGED callerVars

\* views[v].OpKernelTypeStrArgsIsNone()
OpKernelTypeStrArgsIsNoneCall ==
    \E v \in ActiveViews :
        LET o == TableOffset(out, views[v], SlotVOffset)
        IN  /\ Reading
            /\ views[v] /= NoneVal
            /\ call' = "OpKernelTypeStrArgsIsNone"
            /\ err' = ReadErr(o)
            /\ res' = Result(v, NoneVal, IF o = Raised THEN Raised
                                         ELSE OpKernelTypeStrArgsIsNone(out, views[v]))
            /\ views' = [views EXCEPT ![v] = PosAfterRead(views[v])]
            /\ UNCHANGED <<builder, out, outRoot, boundAt>>
            /\ UNCHANGED callerVars

ReadNext ==
    \/ GetRootAsOpInfoCall
    \/ OpInfoBufferHasIdentifierCall
    \/ OpKernelTypeStrArgsCall
    \/ OpKernelTypeStrArgsLengthCall
    \/ OpKernelTypeStrArgsIsNoneCall

Next == BuilderNext \/ ReadNext

Spec == Init /\ [][Next]_vars

\* ------------------------------------------------------------------- claims
TabSet == {tabs[i] : i \in 1..Len(tabs)}
VecSet == {vecs[i] : i \in 1..Len(vecs)}

\* `out` can be read: it was loaded, or it is what Output() returned and the
\* builder holds the same bytes still
Readable == out /= <<>> /\ (Loaded \/ builder.data = out)

\* `out` is what Output() returned after Finish(outRoot), and `tabs` and `vecs`
\* are what the builder had returned by then
BuiltOut == Readable /\ ~Loaded

\* the position in `out` of what the builder put at offset `off`
PosOf(off) == Len(out) - off

RootTab == CHOOSE t \in TabSet : t.off = outRoot
VecOf(x) == CHOOSE v \in VecSet : v.off = x
RootPos == GetRootAsOpInfo(out, 0)

\* C1: a vector of n finished tables, prepended last index first and added to
\* the root OpInfo table, reads back after Finish with length n and, for every
\* j < n, a view on table e[j], reached through the element at
\* vectorBase + 4*j and one Indirect.
C1_RoundTrip ==
    (BuiltOut /\ RootTab.field /= 0) =>
        LET vec == VecOf(RootTab.field)
            vectorBase == PosOf(vec.off) + UOffsetWidth
        IN  /\ OpKernelTypeStrArgsLength(out, RootPos) = vec.n
            /\ Len(vec.elems) = vec.n
            /\ \A j \in 0..(vec.n - 1) :
                  /\ OpKernelTypeStrArgs(out, RootPos, j) = PosOf(vec.elems[j + 1])
                  /\ OpKernelTypeStrArgs(out, RootPos, j)
                        = Indirect(out, vectorBase + 4 * j)
            /\ (call = "OpKernelTypeStrArgsLength" /\ err = "none") => res.val = vec.n
            /\ (call = "OpKernelTypeStrArgs" /\ err = "none" /\ res.arg < vec.n)
                  => res.val = PosOf(vec.elems[res.arg + 1])

C1_Witness ==
    /\ BuiltOut
    /\ RootTab.field /= 0
    /\ VecOf(RootTab.field).n = 2
    /\ VecOf(RootTab.field).elems[1] /= VecOf(RootTab.field).elems[2]
    /\ call = "OpKernelTypeStrArgs"
    /\ res.arg = 1
    /\ res.val = PosOf(VecOf(RootTab.field).elems[2])

\* C2: a root OpInfo table whose field was never added, or added with the
\* default 0, has field offset 0 at vtable offset 4: IsNone is True, Length is
\* 0 and the element accessor returns None for every j; a table whose field
\* was added with a vector offset has IsNone False.  Adding 0 leaves the open
\* object's slot unset.
C2_AbsentDefault ==
    /\ BuiltOut =>
          LET pos == RootPos
          IN  IF RootTab.field = 0
              THEN /\ TableOffset(out, pos, SlotVOffset) = 0
                   /\ OpKernelTypeStrArgsIsNone(out, pos)
                   /\ OpKernelTypeStrArgsLength(out, pos) = 0
                   /\ \A j \in Indices : OpKernelTypeStrArgs(out, pos, j) = NoneVal
                   /\ (call = "OpKernelTypeStrArgsIsNone" /\ err = "none")
                         => res.val = TRUE
                   /\ (call = "OpKernelTypeStrArgsLength" /\ err = "none")
                         => res.val = 0
                   /\ (call = "OpKernelTypeStrArgs" /\ err = "none")
                         => res.val = NoneVal
              ELSE /\ ~OpKernelTypeStrArgsIsNone(out, pos)
                   /\ (call = "OpKernelTypeStrArgsIsNone" /\ err = "none")
                         => res.val = FALSE
    /\ (InObject /\ added \in {NoneVal, DefaultValue})
          => builder.current_vtable = Zeros(NumFields)
    /\ (InObject /\ added \notin {NoneVal, DefaultValue})
          => builder.current_vtable[SlotNum + 1] /= 0

C2_Witness ==
    /\ BuiltOut
    /\ RootTab.field = 0
    /\ call = "OpKernelTypeStrArgsIsNone"
    /\ err = "none"
    /\ res.val = TRUE

\* the vtable byte size of the table at `pos`, Raised when it cannot be read
VtableSize(buf, pos) ==
    IF ~InRange(buf, pos, SOffsetWidth) THEN Raised
    ELSE LET vtable == pos - GetS(buf, pos, SOffsetWidth)
         IN  IF InRange(buf, vtable, VOffsetWidth)
             THEN GetU(buf, vtable, VOffsetWidth) ELSE Raised

\* the accessors that look up the field of the table a view is bound to
FieldCalls == {"OpKernelTypeStrArgs", "OpKernelTypeStrArgsLength",
               "OpKernelTypeStrArgsIsNone"}

\* C3: for a view bound to a table whose vtable has a byte size of at most 4
\* (no field slot), the lookup of vtable offset 4 gives 0 without reading past
\* the vtable and without raising: IsNone is True, Length is 0 and the element
\* accessor is None, as operators and as the calls made on that view return.
C3_ShortVtable ==
    \A v \in ViewIds :
        LET pos == views[v]
            size == VtableSize(out, pos)
        IN  (pos /= NoneVal /\ size /= Raised /\ size <= SlotVOffset) =>
            /\ TableOffset(out, pos, SlotVOffset) = 0
            /\ OpKernelTypeStrArgsIsNone(out, pos)
            /\ OpKernelTypeStrArgsLength(out, pos) = 0
            /\ \A j \in Indices : OpKernelTypeStrArgs(out, pos, j) = NoneVal
            /\ (res.view = v /\ call \in FieldCalls) =>
                  /\ err = "none"
                  /\ call = "OpKernelTypeStrArgsIsNone" => res.val = TRUE
                  /\ call = "OpKernelTypeStrArgsLength" => res.val = 0
                  /\ call = "OpKernelTypeStrArgs" => res.val = NoneVal

C3_Witness ==
    /\ BuiltOut
    /\ VtableSize(out, views[1]) = SlotVOffset
    /\ call = "OpKernelTypeStrArgsLength"
    /\ err = "none"
    /\ res.val = 0

\* the four bytes at 0-based position p of buf exist and are "ORTM"
IdentifierAt(buf, p) ==
    /\ p + FileIdentifierLength <= Len(buf)
    /\ \A i \in 1..FileIdentifierLength : buf[p + i] = Identifier[i]

\* C4: OpInfoBufferHasIdentifier is True exactly when the 4 bytes at offset+4
\* (offset+8 when size_prefixed) are "ORTM"; otherwise, a too short buffer
\* included, it is False; it never raises.  Stated for every offset into every
\* buffer as it is handed to the reader, and for every call made.
C4_Identifier ==
    /\ (Readable /\ NoReadYet) => \A offset \in 0..Len(out), size_prefixed \in BOOLEAN :
          OpInfoBufferHasIdentifier(out, offset, size_prefixed)
             <=> IdentifierAt(out, offset + UOffsetWidth
                                   + (IF size_prefixed THEN UOffsetWidth ELSE 0))
    /\ call = "OpInfoBufferHasIdentifier" =>
          /\ err = "none"
          /\ res.val <=> IdentifierAt(out, res.arg[1] + UOffsetWidth
                                      + (IF res.arg[2] THEN UOffsetWidth ELSE 0))

C4_Witness ==
    /\ call = "OpInfoBufferHasIdentifier"
    /\ err = "none"
    /\ res.arg[2]
    /\ res.val
    /\ IdentifierAt(out, res.arg[1] + 2 * UOffsetWidth)

C4_WitnessShort ==
    /\ call = "OpInfoBufferHasIdentifier"
    /\ err = "none"
    /\ Len(out) < res.arg[1] + UOffsetWidth + FileIdentifierLength
    /\ ~res.val

builderFrame == UNCHANGED <<builder, tabs, vecs, pending, numElems, added, rootOf, finLen>>

Suffix(s, n) == SubSeq(s, Len(s) - n + 1, Len(s))

\* C6 as stated: once Finish has been called, OpInfoStart,
\* OpInfoAddOpKernelTypeStrArgs, OpInfoStartOpKernelTypeStrArgsVector and
\* OpInfoEnd change neither the builder's bytes nor its nesting.
C6_NoWriteAfterFinish ==
    [][ (builder.finished /\ call' \in WriteCalls)
            => (builder'.data = builder.data /\ builder'.nested = builder.nested) ]_vars

\* C6, amended: once Finish has been called the builder stays finished, the
\* bytes Finish left keep their content and their place from the buffer's end,
\* and a buffer Output() returned is not changed by later builder calls; the
\* four write helpers are still accepted and prepend bytes before them.
C6_FinishedBytesKept ==
    [][ builder.finished =>
            /\ builder'.finished
            /\ Len(builder'.data) >= Len(builder.data)
            /\ Suffix(builder'.data, Len(builder.data)) = builder.data
            /\ finLen' = finLen
            /\ (out /= <<>> => out' = out) ]_vars

C6_Witness ==
    /\ builder.finished
    /\ out /= <<>>
    /\ call = "OpInfoEnd"
    /\ err = "none"
    /\ Len(builder.data) > finLen
    /\ Suffix(builder.data, finLen) = out

\* C7: GetRootAsOpInfo reads the uoffset r at `offset` and binds the new view
\* at offset + r, with no other validation than that read; on the buffer of
\* Finish(rootTable) that position is the root table's.
C7_RootAccess ==
    /\ BuiltOut => RootPos = PosOf(outRoot)
    /\ call = "GetRootAsOpInfo" =>
          /\ err = "none" <=> InRange(out, res.arg, UOffsetWidth)
          /\ err = "none" =>
                /\ res.val = res.arg + GetU(out, res.arg, UOffsetWidth)
                /\ views[res.view] = res.val
                /\ boundAt[res.view] = res.arg

C7_Witness ==
    /\ BuiltOut
    /\ call = "GetRootAsOpInfo"
    /\ err = "none"
    /\ views[1] = PosOf(outRoot)
    /\ outRoot \in TableOffsets

\* the position of a view freshly bound at the offset view v was bound at
AlonePos(v) == GetRootAsOpInfo(out, boundAt[v])

\* C8: every read leaves the buffer, the builder and the position of every
\* bound view unchanged, and an accessor called on a view among other views'
\* reads returns what it returns on a view bound alone at the same offset.
C8_ReadOnly ==
    [][ call' \in ReadCalls =>
            /\ out' = out
            /\ builder' = builder
            /\ \A v \in ViewIds : views[v] /= NoneVal =>
                  (views'[v] = views[v] /\ boundAt'[v] = boundAt[v])
            /\ call' = "OpKernelTypeStrArgs" =>
                  res'.val = OpKernelTypeStrArgs(out, AlonePos(res'.view), res'.arg)
            /\ call' = "OpKernelTypeStrArgsLength" =>
                  res'.val = OpKernelTypeStrArgsLength(out, AlonePos(res'.view))
            /\ call' = "OpKernelTypeStrArgsIsNone" =>
                  /\ err' = ReadErr(TableOffset(out, AlonePos(res'.view), SlotVOffset))
                  /\ err' = "none" =>
                        (res'.val <=> OpKernelTypeStrArgsIsNone(out, AlonePos(res'.view)))
      ]_vars

C8_Witness ==
    /\ Loaded
    /\ views[1] /= NoneVal
    /\ views[2] /= NoneVal
    /\ call = "OpKernelTypeStrArgs"
    /\ res.view = 1
    /\ res.val >= 0
    /\ err = "none"

\* the position in the builder's bytes of the vtable of the table at offset `off`
VtablePosOf(off) ==
    LET p == Len(builder.data) - off
    IN  p - GetS(builder.data, p, SOffsetWidth)

\* C9: OpInfo tables with the same field presence share one vtable: their
\* vtable offsets lead to the same position, and the builder has emitted one
\* vtable for each presence pattern in use, not one for each table.
C9_VtableDedup ==
    /\ \A t1 \in TabSet, t2 \in TabSet :
          ((t1.field = 0) <=> (t2.field = 0)) => VtablePosOf(t1.off) = VtablePosOf(t2.off)
    /\ Len(builder.vtables) = Cardinality({t.field = 0 : t \in TabSet})

C9_Witness ==
    /\ builder.finished
    /\ \E i \in 1..Len(tabs), k \in 1..Len(tabs) :
          /\ i < k
          /\ tabs[i].field /= 0
          /\ tabs[k].field /= 0
          /\ VtablePosOf(tabs[i].off) = VtablePosOf(tabs[k].off)
    /\ Len(builder.vtables) = 1

\* C10: the element accessor returns None exactly when the field is absent;
\* with the field present it does not look at the length: for every j, also
\* j >= length and also a vector of length 0, it returns the position
\* Indirect(vectorBase + 4*j) whenever those 4 bytes are in the buffer, and for
\* j < length that is the entry the builder wrote.
C10_NoIndexCheck ==
    BuiltOut =>
        \A j \in Indices :
            LET entry == OpKernelTypeStrArgs(out, RootPos, j)
                field == RootTab.field
            IN  /\ (entry = NoneVal) <=> (field = 0)
                /\ field /= 0 =>
                      LET vec == VecOf(field)
                          x == PosOf(vec.off) + UOffsetWidth + 4 * j
                      IN  /\ InRange(out, x, UOffsetWidth) =>
                                 /\ entry = x + GetU(out, x, UOffsetWidth)
                                 /\ entry >= 0
                          /\ j < vec.n => entry \in {PosOf(o) : o \in TableOffsets}
                /\ (call = "OpKernelTypeStrArgs" /\ res.arg = j) => res.val = entry

C10_Witness ==
    /\ BuiltOut
    /\ RootTab.field /= 0
    /\ VecOf(RootTab.field).n = 0
    /\ call = "OpKernelTypeStrArgs"
    /\ err = "none"
    /\ res.arg = 0
    /\ res.val >= 0
====
